---- MODULE Spec2Model ----
(***************************************************************************)
(* Model of the Linux tun client of OpenVPN 3                               *)
(* (openvpn/tun/linux/client/tuncli.hpp): the Client session controller,   *)
(* the Tun I/O pump it owns, the TunPersist store it borrows from and the  *)
(* single-threaded event loop that runs read completions and posted tasks. *)
(*                                                                         *)
(* Every operation of Client is an operator from a packed program state to *)
(* a packed program state, written in the order of the statements of the   *)
(* code; an action applies one operator to the current state.              *)
(***************************************************************************)
EXTENDS Integers, Sequences, FiniteSets, TLC

VARIABLES
    impl,        \* Client::impl: pump id, 0 = null
    halt,        \* Client::halt
    tun_persist, \* Client::tun_persist: "none", "short" or "long"
    state,       \* Client::state: pointer to a TunProp::State object, 0 = null
    tun_setup,   \* Client::tun_setup: fd of the setup object it refers to, 0 = null
    heap,        \* the TunProp::State objects, by pointer
    stores,      \* the TunPersist objects: 0 = ClientConfig::tun_persist, c = short-term store of client c
    fds,         \* the descriptors handed out by establish
    pumps,       \* the Tun objects, by pump id
    queue,       \* the io_context's queue of ready handlers
    longTerm,    \* ClientConfig::tun_persist is set
    last         \* the last operation: its inputs, its result and the calls it made

vars == <<impl, halt, tun_persist, state, tun_setup, heap, stores, fds, pumps, queue, longTerm, last>>

\* ---------------------------------------------------------------- bounds
NumClients == 2
MaxFds == 2
MaxPumps == 2
MaxPosted == 1
NParallel == 1
NumAddrs == 1

Clients == 1 .. NumClients
Addrs == 1 .. NumAddrs
Opts == {"v4", "v6"}
FailPoints == {"none", "probe", "configure", "establish", "persist"}
ReadKinds == {"data", "zero", "err", "aborted"}

\* ---------------------------------------------------------------- values
ConfigMtu == 1500

UndefTun == "UNDEF_TUN"

NoKey == <<0, "">>

\* TunProp::State as Client's constructor creates it
NewState == [ip4 |-> 0, ip6 |-> 0, gw4 |-> 0, gw6 |-> 0, mtu |-> 0, iface_name |-> ""]

EmptyStore == [obj |-> 0, state |-> 0, key |-> NoKey, destructor |-> 0]

NoFd == [status |-> "unused", long |-> FALSE, torn |-> FALSE]

NoPump == [owner |-> 0, fd |-> 0, name |-> "", halt |-> FALSE, armed |-> 0, cstopped |-> FALSE]

NoLast == [op |-> "init", c |-> 0, fail |-> "none",
           ret |-> FALSE, threw |-> FALSE, calls |-> <<>>]

\* interface name the device-establishment collaborator reports for a descriptor
IfaceName(fd) ==
    "tun" \o ToString(fd)

\* IP::Addr::to_string
AddrToString(a) ==
    "10.8.0." \o ToString(a)

\* ---------------------------------------------------------------- packed state
Pack ==
    [impl |-> impl, halt |-> halt, tun_persist |-> tun_persist, state |-> state,
     tun_setup |-> tun_setup, heap |-> heap, stores |-> stores, fds |-> fds,
     pumps |-> pumps, queue |-> queue,
     sd |-> 0, copt |-> NoKey, calls |-> <<>>, ret |-> FALSE, threw |-> FALSE, overflow |-> FALSE]

Ev(e, x) ==
    [e |-> e, x |-> x]

Call(s, e, x) ==
    [s EXCEPT !.calls = Append(@, Ev(e, x))]

\* the program state of a packed state, without the record of the operation
Prog(s) ==
    [impl |-> s.impl, halt |-> s.halt, tun_persist |-> s.tun_persist, state |-> s.state,
     tun_setup |-> s.tun_setup, heap |-> s.heap, stores |-> s.stores, fds |-> s.fds,
     pumps |-> s.pumps, queue |-> s.queue]

\* a Tun object lives as long as impl or a handler of the event loop refers to it
PumpLive(s, p) ==
    \/ \E c \in Clients : s.impl[c] = p
    \/ \E i \in 1 .. Len(s.queue) :
          \/ s.queue[i].t = "read" /\ s.queue[i].id = p
          \/ s.queue[i].t = "start" /\ s.queue[i].old = p

\* the number of a closed descriptor is free again once no running pump is bound to it
FdFree(s, f) ==
    /\ s.fds[f].status = "closed"
    /\ \A p \in 1 .. MaxPumps : (PumpLive(s, p) /\ ~s.pumps[p].halt) => s.pumps[p].fd # f

\* the state an operation has computed becomes the next state; the operation
\* is evaluated once
Commit(result, op, c, fail) ==
    \E s \in {result} :
        /\ ~s.overflow
        /\ impl' = s.impl
        /\ halt' = s.halt
        /\ tun_persist' = s.tun_persist
        /\ state' = s.state
        /\ tun_setup' = s.tun_setup
        /\ heap' = s.heap
        /\ stores' = s.stores
        /\ fds' = [f \in 1 .. MaxFds |-> IF FdFree(s, f) THEN NoFd ELSE s.fds[f]]
        /\ pumps' = [p \in 1 .. MaxPumps |-> IF PumpLive(s, p) THEN s.pumps[p] ELSE NoPump]
        /\ queue' = s.queue
        /\ longTerm' = longTerm
        /\ last' = [op |-> op, c |-> c,
                    fail |-> IF s.threw THEN fail ELSE "none",
                    ret |-> s.ret, threw |-> s.threw, calls |-> s.calls]

\* ---------------------------------------------------------------- TunPersist
StoreId(s, c) ==
    IF s.tun_persist[c] = "long" THEN 0 ELSE c

\* use_persisted_tun: captures the probed properties (kept until the persist of the
\* same tun_start), then compares them with the persisted ones
StoreProbe(s, sid, a, o) ==
    [s EXCEPT !.copt = <<a, o>>]

use_persisted_tun(s, sid, a, o) ==
    /\ s.stores[sid].obj # 0
    /\ s.stores[sid].key = <<a, o>>

\* close(): run the attached destructor, close the descriptor, forget the state
StoreClose(s, sid) ==
    LET st == s.stores[sid]
        s0 == Call(s, "store_close", st.obj)
        s1 == IF st.obj # 0 /\ st.destructor # 0 THEN Call(s0, "destructor", st.destructor) ELSE s0
    IN IF st.obj = 0
       THEN [s1 EXCEPT !.stores[sid] = EmptyStore]
       ELSE [s1 EXCEPT !.fds[st.obj] = [@ EXCEPT !.status = "closed",
                                                 !.torn = (st.destructor # 0)],
                       !.stores[sid] = EmptyStore]

\* persist_tun_state(sd, state): keep the descriptor, the state and the probed properties
persist_tun_state(s, sid, sd, ptr) ==
    Call([s EXCEPT !.stores[sid] = [@ EXCEPT !.obj = sd, !.state = ptr,
                                             !.key = s.copt]],
         "persist_tun_state", sd)

add_destructor(s, sid, setup) ==
    Call([s EXCEPT !.stores[sid].destructor = setup], "add_destructor", setup)

\* ---------------------------------------------------------------- collaborators
NextFd(s) ==
    IF \E f \in 1 .. MaxFds : s.fds[f].status = "unused"
    THEN CHOOSE f \in 1 .. MaxFds :
            /\ s.fds[f].status = "unused"
            /\ \A g \in 1 .. MaxFds : s.fds[g].status = "unused" => f <= g
    ELSE 0

\* TunBuilderSetup::establish: a new open descriptor
establish(s, isLong) ==
    LET f == NextFd(s)
    IN IF f = 0
       THEN [s EXCEPT !.overflow = TRUE]
       ELSE Call([s EXCEPT !.fds[f] = [status |-> "open", long |-> isLong, torn |-> FALSE]],
                 "establish", f)

\* TunProp::configure_builder(po, state, ...): writes the pushed values into *state
configure_builder(s, ptr, a, o) ==
    Call([s EXCEPT !.heap[ptr] = [@ EXCEPT !.ip4 = IF o = "v4" THEN a ELSE @,
                                           !.gw4 = IF o = "v4" THEN a ELSE @,
                                           !.ip6 = IF o = "v6" THEN a ELSE @,
                                           !.gw6 = IF o = "v6" THEN a ELSE @,
                                           !.mtu = ConfigMtu]],
         "configure_builder", a)

\* ---------------------------------------------------------------- Tun / TunIO
NextPump(s) ==
    IF \E p \in 1 .. MaxPumps : s.pumps[p].owner = 0
    THEN CHOOSE p \in 1 .. MaxPumps :
            /\ s.pumps[p].owner = 0
            /\ \A q \in 1 .. MaxPumps : s.pumps[q].owner = 0 => p <= q
    ELSE 0

Aborted(p, n) ==
    [i \in 1 .. n |-> [t |-> "read", id |-> p, kind |-> "aborted", a |-> 0, o |-> "", old |-> 0]]

\* TunIO::stop: cancel the outstanding reads, release the stream, become inert
PumpStop(s, p) ==
    IF s.pumps[p].halt
    THEN s
    ELSE [s EXCEPT !.pumps[p].halt = TRUE,
                   !.pumps[p].armed = 0,
                   !.queue = @ \o Aborted(p, s.pumps[p].armed)]

\* TunIO::start(n_parallel)
PumpStart(s, p, n) ==
    IF s.pumps[p].halt
    THEN s
    ELSE Call([s EXCEPT !.pumps[p].armed = n], "pump_start", p)

\* TunIO::write
PumpWrite(s, p) ==
    IF s.pumps[p].halt
    THEN [s EXCEPT !.ret = FALSE]
    ELSE [Call(s, "pump_write", s.pumps[p].fd)
            EXCEPT !.ret = (s.fds[s.pumps[p].fd].status = "open")]

\* Tun::Tun: a pump bound to the descriptor, retaining the stream
TunImpl(s, c, sd, name) ==
    LET p == NextPump(s)
    IN IF p = 0
       THEN [s EXCEPT !.overflow = TRUE]
       ELSE Call([s EXCEPT !.pumps[p] = [owner |-> c, fd |-> sd, name |-> name,
                                         halt |-> FALSE, armed |-> 0, cstopped |-> FALSE],
                           !.impl[c] = p],
                 "pump_new", sd)

\* ---------------------------------------------------------------- Client
\* tun_persist.reset(): a short-term store dies with its last reference
ResetPersist(s, c) ==
    IF s.tun_persist[c] = "none"
    THEN s
    ELSE LET s1 == IF s.tun_persist[c] = "short"
                   THEN [StoreClose(s, c) EXCEPT !.stores[c] = EmptyStore]
                   ELSE s
         IN Call([s1 EXCEPT !.tun_persist[c] = "none"], "store_release", 0)

\* stop_ that forgets to stop the pump
stop_KeepsPump(s, c) ==
    IF s.halt[c]
    THEN s
    ELSE ResetPersist([s EXCEPT !.halt[c] = TRUE], c)

\* stop_ without the halt guard
stop_Unguarded(s, c) ==
    LET s1 == [s EXCEPT !.halt[c] = TRUE]
        s2 == IF s1.impl[c] # 0
              THEN PumpStop(Call(s1, "pump_stop", s1.impl[c]), s1.impl[c])
              ELSE s1
    IN ResetPersist(s2, c)

\* stop_ that keeps its reference to the store
stop_NoRelease(s, c) ==
    IF s.halt[c]
    THEN s
    ELSE LET s1 == [s EXCEPT !.halt[c] = TRUE]
         IN IF s1.impl[c] # 0
            THEN PumpStop(Call(s1, "pump_stop", s1.impl[c]), s1.impl[c])
            ELSE s1

\* stop_ that drops its reference to the store before it stops the pump
stop_ReleasesFirst(s, c) ==
    IF s.halt[c]
    THEN s
    ELSE LET s1 == ResetPersist([s EXCEPT !.halt[c] = TRUE], c)
         IN IF s1.impl[c] # 0
            THEN PumpStop(Call(s1, "pump_stop", s1.impl[c]), s1.impl[c])
            ELSE s1

\* lines 354-366
stop_(s, c) ==
    IF s.halt[c]
    THEN s
    ELSE LET s1 == [s EXCEPT !.halt[c] = TRUE]
             s2 == IF s1.impl[c] # 0
                   THEN PumpStop(Call(s1, "pump_stop", s1.impl[c]), s1.impl[c])
                   ELSE s1
         IN ResetPersist(s2, c)

\* Client::stop; the pump it leaves behind is marked as stopped by the client
stop(s, c) ==
    LET s1 == stop_(s, c)
    IN IF s1.impl[c] # 0
       THEN Call([s1 EXCEPT !.pumps[s1.impl[c]].cstopped = TRUE], "stop_returned", s1.impl[c])
       ELSE Call(s1, "stop_returned", 0)

Throw(s) ==
    Call([s EXCEPT !.threw = TRUE], "throw", 0)

\* lines 140-149: the long-term store of the config, or a new short-term store
SelectPersist(s, c) ==
    LET s1 == ResetPersist(s, c)
    IN IF longTerm
       THEN [s1 EXCEPT !.tun_persist[c] = "long"]
       ELSE [s1 EXCEPT !.tun_persist[c] = "short", !.stores[c] = EmptyStore]

\* the reuse path that notifies the parent of a fresh setup all the same
TunStartHitNotifies(s, c, sid) ==
    Call([Call(s, "tun_pre_tun_config", 0)
            EXCEPT !.state[c] = s.stores[sid].state, !.sd = s.stores[sid].obj],
         "reused", s.stores[sid].obj)

\* lines 159-164: adopt the persisted state and descriptor
TunStartHit(s, c, sid) ==
    Call([s EXCEPT !.state[c] = s.stores[sid].state, !.sd = s.stores[sid].obj],
         "reused", s.stores[sid].obj)

\* lines 197-203: tun_setup->establish; sd is the descriptor it returns
TunStartEstablish(s, c) ==
    LET s1 == establish(s, s.tun_persist[c] = "long")
    IN IF s1.overflow THEN s1 ELSE [s1 EXCEPT !.sd = s1.calls[Len(s1.calls)].x]

\* lines 213-218: name the state, persist it, enable the destructor
TunStartPersist(s, c, sid, fail) ==
    LET s1 == [s EXCEPT !.heap[s.state[c]].iface_name = IfaceName(s.sd)]
    IN IF fail = "persist"
       THEN Throw(s1)
       ELSE add_destructor(persist_tun_state(s1, sid, s1.sd, s1.state[c]), sid, s1.tun_setup[c])

\* fresh setup that closes the old handle only after the new one is established
TunStartMissLateClose(s, c, sid, a, o, fail) ==
    LET s1 == Call(s, "tun_pre_tun_config", 0)
        s3 == configure_builder(s1, s1.state[c], a, o)
        s4 == [s3 EXCEPT !.tun_setup[c] = NextFd(s3)]
        s5 == TunStartEstablish(s4, c)
    IN IF fail = "configure" THEN Throw(s1)
       ELSE IF fail = "establish" THEN Throw(s4)
       ELSE IF s5.overflow THEN s5
       ELSE TunStartPersist(StoreClose(s5, sid), c, sid, fail)

\* lines 166-219: fresh setup
TunStartMiss(s, c, sid, a, o, fail) ==
    LET s1 == Call(s, "tun_pre_tun_config", 0)
        s2 == StoreClose(s1, sid)
        s3 == configure_builder(s2, s2.state[c], a, o)
        s4 == [s3 EXCEPT !.tun_setup[c] = NextFd(s3)]
        s5 == TunStartEstablish(s4, c)
    IN IF fail = "configure" THEN Throw(s2)
       ELSE IF fail = "establish" THEN Throw(s4)
       ELSE IF s5.overflow THEN s5
       ELSE TunStartPersist(s5, c, sid, fail)

\* tells the parent that the tunnel is connected before the pump is started
TunStartPumpNotifiesFirst(s, c) ==
    LET s1 == TunImpl(s, c, s.sd, s.heap[s.state[c]].iface_name)
    IN IF s1.overflow
       THEN s1
       ELSE PumpStart(Call(s1, "tun_connected", s1.impl[c]), s1.impl[c], NParallel)

\* lines 221-231: create and start the pump, tell the parent
TunStartPump(s, c) ==
    LET s1 == TunImpl(s, c, s.sd, s.heap[s.state[c]].iface_name)
    IN IF s1.overflow
       THEN s1
       ELSE Call(PumpStart(s1, s1.impl[c], NParallel), "tun_connected", s1.impl[c])

\* lines 151-232: the body of the try block
TunStartTry(s, c, a, o, fail) ==
    LET sid == StoreId(s, c)
        hit == use_persisted_tun(s, sid, a, o)
        s1 == Call(StoreProbe(s, sid, a, o), "use_persisted_tun", IF hit THEN 1 ELSE 0)
        s2 == IF hit THEN TunStartHit(s1, c, sid) ELSE TunStartMiss(s1, c, sid, a, o, fail)
    IN IF fail = "probe" THEN Throw(s)
       ELSE IF s2.threw \/ s2.overflow THEN s2
       ELSE TunStartPump(s2, c)

\* the catch block without its stop()
TunStartCatchNoStop(s, c) ==
    LET s1 == IF s.tun_persist[c] # "none" THEN StoreClose(s, StoreId(s, c)) ELSE s
    IN Call(s1, "tun_error", 0)

\* lines 233-240: the catch block
TunStartCatch(s, c) ==
    LET s1 == IF s.tun_persist[c] # "none" THEN StoreClose(s, StoreId(s, c)) ELSE s
    IN Call(stop(s1, c), "tun_error", 0)

\* tun_start without the guard on the existing pump
tun_startUnguarded(s, c, a, o, fail) ==
    LET s1 == SelectPersist([s EXCEPT !.halt[c] = FALSE], c)
        s2 == TunStartTry(s1, c, a, o, fail)
    IN IF s2.threw THEN TunStartCatch(s2, c) ELSE s2

\* lines 134-242
tun_start(s, c, a, o, fail) ==
    IF s.impl[c] # 0
    THEN s
    ELSE LET s1 == SelectPersist([s EXCEPT !.halt[c] = FALSE], c)
             s2 == TunStartTry(s1, c, a, o, fail)
         IN IF s2.threw THEN TunStartCatch(s2, c) ELSE s2

\* send that reports success whenever a pump object exists
sendIgnoresResult(s, c) ==
    IF s.impl[c] # 0
    THEN [PumpWrite(s, s.impl[c]) EXCEPT !.ret = TRUE]
    ELSE [s EXCEPT !.ret = FALSE]

\* lines 336-342
send(s, c) ==
    IF s.impl[c] # 0
    THEN PumpWrite(s, s.impl[c])
    ELSE [s EXCEPT !.ret = FALSE]

\* lines 344-347; the parent may call stop() from inside tun_recv
tun_read_handler(s, c, p, reStop) ==
    LET s1 == Call(s, "tun_recv", p)
    IN IF reStop THEN stop(s1, c) ELSE s1

\* an error handler that hands the completion to the parent as a packet
tun_error_handlerForwards(s, c) ==
    Call(s, "tun_recv", 0)

\* an error handler that tears the session down and reports to the parent
tun_error_handlerStops(s, c) ==
    Call(stop(s, c), "tun_error", 0)

\* lines 349-352
tun_error_handler(s, c) ==
    s

\* TunIO::handle_read: drop the completion of a stopped pump, else deliver and re-arm
handle_read(s, p, kind, reStop) ==
    IF s.pumps[p].halt
    THEN Call(s, "drop_" \o kind, p)
    ELSE LET c == s.pumps[p].owner
             s1 == IF kind = "data"
                   THEN tun_read_handler(s, c, p, reStop)
                   ELSE tun_error_handler(Call(s, "tun_error_handler", p), c)
         IN IF s1.pumps[p].halt
            THEN s1
            ELSE [s1 EXCEPT !.pumps[p].armed = @ + 1]

Posted(s) ==
    Len(SelectSeq(s.queue, LAMBDA m : m.t = "start"))

\* apply_push_update that restarts at once instead of posting the restart
apply_push_updateInline(s, c, a, o) ==
    LET s1 == stop_(s, c)
        s2 == IF s1.impl[c] # 0
              THEN [PumpStop(s1, s1.impl[c]) EXCEPT !.impl[c] = 0]
              ELSE s1
    IN tun_start(Call(s2, "post", s.impl[c]), c, a, o, "none")

\* apply_push_update that stops and never schedules the restart
apply_push_updateNoPost(s, c, a, o) ==
    LET s1 == stop_(s, c)
    IN IF s1.impl[c] # 0
       THEN [PumpStop(s1, s1.impl[c]) EXCEPT !.impl[c] = 0]
       ELSE s1

\* lines 307-322; the posted task remembers which pump the call has left behind
apply_push_update(s, c, a, o) ==
    LET s1 == stop_(s, c)
        s2 == IF s1.impl[c] # 0
              THEN [PumpStop(s1, s1.impl[c]) EXCEPT !.impl[c] = 0]
              ELSE s1
    IN Call([s2 EXCEPT !.queue = Append(@, [t |-> "start", id |-> c, kind |-> "",
                                              a |-> a, o |-> o, old |-> s.impl[c]])],
            "post", s.impl[c])

\* the task that apply_push_update posts (lines 318-321)
posted_task(s, m, fail) ==
    tun_start(Call(s, "run_posted", m.old), m.id, m.a, m.o, fail)

\* ---------------------------------------------------------------- accessors
tun_name(s, c) ==
    IF s.impl[c] # 0 THEN s.pumps[s.impl[c]].name ELSE UndefTun

vpn_ip4(s, c) ==
    IF s.heap[s.state[c]].ip4 # 0 THEN AddrToString(s.heap[s.state[c]].ip4) ELSE ""

vpn_ip6(s, c) ==
    IF s.heap[s.state[c]].ip6 # 0 THEN AddrToString(s.heap[s.state[c]].ip6) ELSE ""

vpn_gw4(s, c) ==
    IF s.heap[s.state[c]].gw4 # 0 THEN AddrToString(s.heap[s.state[c]].gw4) ELSE ""

vpn_gw6(s, c) ==
    IF s.heap[s.state[c]].gw6 # 0 THEN AddrToString(s.heap[s.state[c]].gw6) ELSE ""

vpn_mtu(s, c) ==
    s.heap[s.state[c]].mtu

\* ---------------------------------------------------------------- actions
Init ==
    /\ impl = [c \in Clients |-> 0]
    /\ halt = [c \in Clients |-> FALSE]
    /\ tun_persist = [c \in Clients |-> "none"]
    /\ state = [c \in Clients |-> c]
    /\ tun_setup = [c \in Clients |-> 0]
    /\ heap = [c \in Clients |-> NewState]
    /\ stores = [i \in 0 .. NumClients |-> EmptyStore]
    /\ fds = [f \in 1 .. MaxFds |-> NoFd]
    /\ pumps = [p \in 1 .. MaxPumps |-> NoPump]
    /\ queue = <<>>
    /\ longTerm \in BOOLEAN
    /\ last = NoLast

Stop(c) ==
    Commit(stop(Pack, c), "stop", c, "none")

TunStart(c, a, o, fail) ==
    Commit(tun_start(Pack, c, a, o, fail), "tun_start", c, fail)

ApplyPushUpdate(c, a, o) ==
    /\ Posted(Pack) < MaxPosted
    /\ Commit(apply_push_update(Pack, c, a, o), "apply_push_update", c, "none")

TunSend(c) ==
    Commit(send(Pack, c), "tun_send", c, "none")

\* a read outstanding on the descriptor completes and its handler becomes ready
ReadArrive(p) ==
    /\ pumps[p].owner # 0
    /\ ~pumps[p].halt
    /\ pumps[p].armed > 0
    /\ Commit([Pack EXCEPT !.pumps[p].armed = @ - 1,
                           !.queue = Append(@, [t |-> "read", id |-> p, kind |-> "ready",
                                                a |-> 0, o |-> "", old |-> 0])],
              "read_arrive", 0, "none")

\* the event loop runs the handler at the head of its queue, a read completion:
\* a cancelled read, or a read that completed with a packet or with end of
\* stream, on a closed descriptor with an error
RunRead(kind, reStop) ==
    /\ queue # <<>>
    /\ Head(queue).t = "read"
    /\ kind = "aborted" <=> Head(queue).kind = "aborted"
    /\ kind = "err" <=> (Head(queue).kind = "ready" /\ fds[pumps[Head(queue).id].fd].status # "open")
    /\ reStop => kind = "data"
    /\ Commit(handle_read([Pack EXCEPT !.queue = Tail(@)], Head(queue).id, kind, reStop),
              "handle_read", pumps[Head(queue).id].owner, "none")

\* the event loop runs the handler at the head of its queue: the posted tun_start
RunPosted(fail) ==
    /\ queue # <<>>
    /\ Head(queue).t = "start"
    /\ Commit(posted_task([Pack EXCEPT !.queue = Tail(@)], Head(queue), fail),
              "posted_start", Head(queue).id, fail)

\* one controller, every operation, the event loop and the failures of tun_start
Next ==
    \/ Stop(1)
    \/ \E a \in Addrs, o \in Opts, fail \in FailPoints : TunStart(1, a, o, fail)
    \/ \E a \in Addrs, o \in Opts : ApplyPushUpdate(1, a, o)
    \/ TunSend(1)
    \/ \E p \in 1 .. MaxPumps : ReadArrive(p)
    \/ \E kind \in ReadKinds, reStop \in BOOLEAN : RunRead(kind, reStop)
    \/ \E fail \in FailPoints : RunPosted(fail)

Spec ==
    Init /\ [][Next]_vars

\* the event loop runs the handler at the head of its queue; a posted task can
\* always be run, whatever becomes of its setup
RunLoop ==
    \/ \E kind \in ReadKinds, reStop \in BOOLEAN : RunRead(kind, reStop)
    \/ RunPosted("probe")
    \/ \E fail \in FailPoints : RunPosted(fail)

\* the same controller on an event loop that does not stall: a handler that is
\* ready is run in the end
SpecLive ==
    Init /\ [][Next]_vars /\ WF_vars(RunLoop)

\* the controllers that ClientConfig::new_tun_client_obj made from one config
NextShared ==
    \/ \E c \in Clients : Stop(c)
    \/ \E c \in Clients, a \in Addrs, o \in Opts : TunStart(c, a, o, "none")
    \/ \E p \in 1 .. MaxPumps : ReadArrive(p)
    \/ \E kind \in ReadKinds, reStop \in BOOLEAN : RunRead(kind, reStop)

SpecShared ==
    Init /\ [][NextShared]_vars

\* ---------------------------------------------------------------- properties
Made(e) ==
    {i \in 1 .. Len(last.calls) : last.calls[i].e = e}

IsStart ==
    last.op \in {"tun_start", "posted_start"}

Running(c) ==
    impl[c] # 0 /\ ~pumps[impl[c]].halt

Idle(c) ==
    ~Running(c)

C2_StopIdempotent ==
    [][(last.op = "stop" /\ last'.op = "stop" /\ last'.c = last.c)
          => /\ Prog(Pack') = Prog(Pack)
             /\ \A i \in 1 .. Len(last'.calls) : last'.calls[i].e = "stop_returned"]_vars

\* the second stop() of a controller that was connected has returned
C2_Witness ==
    /\ last.op = "stop"
    /\ impl[last.c] # 0
    /\ pumps[impl[last.c]].halt
    /\ last.calls = <<Ev("stop_returned", impl[last.c])>>

\* C3: a tun_start() that finds a compatible persisted resource calls neither
\* establish nor tun_pre_tun_config, and ends Connected: tun_connected is made and
\* the running pump is bound to the store's descriptor, the session state is the store's.
C3_ReuseCorrect ==
    (IsStart /\ Ev("use_persisted_tun", 1) \in {last.calls[i] : i \in 1 .. Len(last.calls)})
        => /\ Made("establish") = {}
           /\ Made("tun_pre_tun_config") = {}
           /\ Made("tun_connected") # {}
           /\ Running(last.c)
           /\ tun_persist[last.c] # "none"
           /\ stores[StoreId(Pack, last.c)].obj # 0
           /\ pumps[impl[last.c]].fd = stores[StoreId(Pack, last.c)].obj
           /\ state[last.c] = stores[StoreId(Pack, last.c)].state

C3_Witness ==
    /\ IsStart
    /\ Ev("use_persisted_tun", 1) \in {last.calls[i] : i \in 1 .. Len(last.calls)}
    /\ Running(last.c)

\* C4: in a tun_start() the close() of the store comes before establish.
C4_CloseBeforeEstablish ==
    IsStart => \A i \in Made("establish") : \E j \in Made("store_close") : j < i

\* an incompatible persisted resource was closed and a new one established
C4_Witness ==
    /\ IsStart
    /\ Made("establish") # {}
    /\ \E j \in Made("store_close") : last.calls[j].x # 0

\* the pump has a completion outstanding: a read armed on the descriptor or a
\* handler waiting in the event loop
Outstanding(p) ==
    pumps[p].armed > 0 \/ \E i \in 1 .. Len(queue) : queue[i].t = "read" /\ queue[i].id = p

\* C5: when the tun_start() that an apply_push_update() call scheduled begins its
\* establishment path, no callback of the pump which that call stopped is
\* outstanding any more: the old and the new pump never both have deliveries pending.
C5_PushUpdateOrdering ==
    (Made("use_persisted_tun") # {} \/ last.threw)
        => \A i \in Made("run_posted") \cup Made("post") :
              last.calls[i].x # 0 => ~Outstanding(last.calls[i].x)

\* the posted restart of a controller that had a pump has connected again
C5_Witness ==
    /\ last.op = "posted_start"
    /\ \E i \in Made("run_posted") : last.calls[i].x # 0
    /\ Made("tun_connected") # {}
    /\ Running(last.c)

\* C6: a tun_start() in which a step fails makes exactly one tun_error upcall and
\* no tun_connected, leaves the controller halted, without store reference and
\* without running pump, and neither establishes again nor schedules a restart;
\* no tun_start() makes both tun_connected and tun_error.
C6_SetupFailure ==
    /\ last.threw
          => /\ Cardinality(Made("tun_error")) = 1
             /\ Made("tun_connected") = {}
             /\ halt[last.c]
             /\ tun_persist[last.c] = "none"
             /\ Idle(last.c)
             /\ Cardinality(Made("establish")) <= 1
             /\ \A i \in Made("tun_error") : \A j \in Made("establish") : j < i
             /\ Made("post") = {}
    /\ ~(Made("tun_connected") # {} /\ Made("tun_error") # {})

\* device establishment has failed
C6_Witness ==
    /\ IsStart
    /\ last.threw
    /\ last.fail = "establish"
    /\ Made("tun_error") # {}

\* C7: the long-term store never has more than one descriptor that was
\* established for it and is still open, and persist_tun_state is reached only
\* after the close() of the store.
C7_OneLiveResource ==
    /\ Cardinality({f \in 1 .. MaxFds : fds[f].status = "open" /\ fds[f].long}) <= 1
    /\ \A i \in Made("persist_tun_state") : \E j \in Made("store_close") : j < i

\* C8: of the controllers of one config with a long-term store, at most one has
\* a running pump on the store's descriptor, and no running pump is bound to a
\* descriptor that was closed under it.
C8_ExclusiveBorrow ==
    longTerm
        => /\ Cardinality({c \in Clients : Running(c) /\ stores[0].obj # 0
                                             /\ pumps[impl[c]].fd = stores[0].obj}) <= 1
           /\ \A c \in Clients : Running(c) => fds[pumps[impl[c]].fd].status = "open"

\* C9: in Idle the accessors return the empty or sentinel values and the
\* session state is present.
C9_AccessorSafety ==
    Idle(1)
        => /\ state[1] # 0
           /\ tun_name(Pack, 1) = UndefTun
           /\ vpn_ip4(Pack, 1) = ""
           /\ vpn_ip6(Pack, 1) = ""
           /\ vpn_gw4(Pack, 1) = ""
           /\ vpn_gw6(Pack, 1) = ""
           /\ vpn_mtu(Pack, 1) = 0

\* C10: tun_send in Idle returns false, queues no write, makes no call and
\* leaves the controller, the pumps, the stores and the descriptors unchanged.
C10_DisconnectedSend ==
    /\ Idle(1) => /\ ~send(Pack, 1).ret
                  /\ send(Pack, 1).calls = <<>>
                  /\ Prog(send(Pack, 1)) = Prog(Pack)
    /\ (last.op = "tun_send" /\ Idle(last.c)) => (~last.ret /\ last.calls = <<>>)

\* tun_send was called between apply_push_update and the posted restart
C10_Witness ==
    /\ last.op = "tun_send"
    /\ ~last.ret
    /\ impl[1] = 0
    /\ Posted(Pack) > 0

Names(calls) ==
    [i \in 1 .. Len(calls) |-> calls[i].e]

InSeq(e, names) ==
    \E i \in 1 .. Len(names) : names[i] = e

\* C11: a read completion of zero bytes on a running pump reaches the controller's
\* error handler and is never forwarded to the parent's tun_recv.
C11_ZeroByteRead ==
    \A p \in 1 .. MaxPumps, reStop \in BOOLEAN :
        (pumps[p].owner # 0 /\ ~pumps[p].halt)
            => LET r == handle_read(Pack, p, "zero", reStop)
               IN /\ Names(r.calls) = <<"tun_error_handler">>
                  /\ r.calls[1].x = p
                  /\ ~InSeq("tun_recv", Names(r.calls))

\* the event loop has run a completion without data on a running pump whose
\* descriptor is open: a zero-byte read
C11_Witness ==
    /\ last.op = "handle_read"
    /\ Running(last.c)
    /\ last.calls = <<Ev("tun_error_handler", impl[last.c])>>
    /\ fds[pumps[impl[last.c]].fd].status = "open"

\* C12: a tun_start() on a controller whose pump object exists makes no upcall,
\* neither queries nor closes the store, does not establish, and leaves the halt
\* flag, the store reference, the session state and the pump as they were.
C12_StartWhileConnectedNoOp ==
    [][(last'.op \in {"tun_start", "posted_start"} /\ impl[last'.c] # 0)
          => /\ \A i \in 1 .. Len(last'.calls) : last'.calls[i].e = "run_posted"
             /\ halt' = halt
             /\ tun_persist' = tun_persist
             /\ state' = state
             /\ heap' = heap
             /\ stores' = stores
             /\ fds' = fds
             /\ impl' = impl
             /\ pumps'[impl[last'.c]] = pumps[impl[last'.c]]]_vars

\* tun_start() was called on a connected controller
C12_Witness ==
    /\ last.op = "tun_start"
    /\ last.calls = <<>>
    /\ Running(last.c)

\* C13: stop() of a connected controller with a short-term store closes the
\* descriptor of its pump and runs the attached destructor; with the long-term
\* store it stops the pump and leaves the store as it was: descriptor open,
\* session state intact, destructor not run.
C13_RetentionScope ==
    [][(last'.op = "stop" /\ Running(last'.c))
          => LET c == last'.c
                 p == impl[c]
                 f == pumps[p].fd
             IN /\ tun_persist[c] # "none"
                /\ tun_persist'[c] = "none"
                /\ pumps'[p].halt
                /\ tun_persist[c] = "short"
                      => /\ stores[c].obj = f
                         /\ stores[c].destructor # 0
                         /\ \E i \in 1 .. Len(last'.calls) : last'.calls[i] = Ev("store_close", f)
                         /\ \E i \in 1 .. Len(last'.calls) :
                               last'.calls[i] = Ev("destructor", stores[c].destructor)
                         /\ fds'[f].status # "open"
                         /\ stores'[c] = EmptyStore
                /\ tun_persist[c] = "long"
                      => /\ stores[0].obj = f
                         /\ stores'[0] = stores[0]
                         /\ fds'[f].status = "open"
                         /\ heap'[stores[0].state] = heap[stores[0].state]
                         /\ ~InSeq("store_close", Names(last'.calls))
                         /\ ~InSeq("destructor", Names(last'.calls))]_vars

\* stop() has stopped the pump of a controller on the long-term store, which
\* still holds the open descriptor
C13_Witness ==
    /\ last.op = "stop"
    /\ longTerm
    /\ impl[last.c] # 0
    /\ last.calls[1] = Ev("pump_stop", impl[last.c])
    /\ stores[0].obj = pumps[impl[last.c]].fd
    /\ fds[stores[0].obj].status = "open"

\* the value a session state field may have when a setup for address a with
\* options o has begun: unset, or the value derived for that setup
FreshField(v, derived) ==
    v = 0 \/ v = derived

\* C14: after a tun_start() that took the fresh-setup path on a controller whose
\* session state is that of an earlier descriptor, whether it connected or failed,
\* the session state the accessors read holds nothing but values derived for
\* this setup.
C14_FreshSessionState ==
    \A a \in Addrs, o \in Opts, fail \in FailPoints :
        LET r == tun_start(Pack, 1, a, o, fail)
            st == r.heap[r.state[1]]
        IN (/\ heap[state[1]].iface_name # ""
            /\ ~r.overflow
            /\ InSeq("tun_pre_tun_config", Names(r.calls)))
              => /\ FreshField(st.ip4, IF o = "v4" THEN a ELSE 0)
                 /\ FreshField(st.gw4, IF o = "v4" THEN a ELSE 0)
                 /\ FreshField(st.ip6, IF o = "v6" THEN a ELSE 0)
                 /\ FreshField(st.gw6, IF o = "v6" THEN a ELSE 0)
                 /\ FreshField(st.mtu, ConfigMtu)
                 /\ st.iface_name \in {"", IfaceName(r.sd)}

\* C15: after a connect, a stop() under the long-term store and a tun_start() for
\* the address and options of the persisted resource, the controller is connected
\* again: tun_connected is made, a pump runs on the persisted descriptor,
\* establish is not called and tun_name() is the interface name as before.
C15_ReconnectAfterStop ==
    (longTerm /\ last.op = "stop" /\ last.c = 1 /\ stores[0].obj # 0)
        => LET r == tun_start(Pack, 1, stores[0].key[1], stores[0].key[2], "none")
           IN r.overflow
              \/ /\ InSeq("tun_connected", Names(r.calls))
                 /\ ~InSeq("establish", Names(r.calls))
                 /\ r.impl[1] # 0
                 /\ ~r.pumps[r.impl[1]].halt
                 /\ r.pumps[r.impl[1]].fd = stores[0].obj
                 /\ tun_name(r, 1) = IfaceName(stores[0].obj)

\* the steps of a fresh setup, in the order of lines 166-231
MissSteps ==
    <<"tun_pre_tun_config", "store_close", "configure_builder", "establish",
      "persist_tun_state", "add_destructor", "pump_new", "pump_start", "tun_connected">>

\* the calls of the last operation that were made inside the try block: all of
\* them, or those before the exception
TryCalls ==
    IF Made("throw") = {}
    THEN last.calls
    ELSE SubSeq(last.calls, 1, (CHOOSE i \in Made("throw") : TRUE) - 1)

\* C16: the steps a tun_start() makes on the fresh-setup path are an initial
\* part of: tun_pre_tun_config, store close, property derivation, establish,
\* persist_tun_state, add_destructor, pump creation, pump start, tun_connected,
\* each once, and all of them when nothing fails; no tun_start() makes
\* tun_connected before the pump is started and the store holds the descriptor.
C16_FreshSetupOrder ==
    /\ (IsStart /\ Made("tun_pre_tun_config") # {})
          => LET steps == SelectSeq(Names(TryCalls), LAMBDA e : InSeq(e, MissSteps))
             IN /\ Len(steps) <= Len(MissSteps)
                /\ steps = SubSeq(MissSteps, 1, Len(steps))
                /\ ~last.threw => steps = MissSteps
    /\ IsStart
          => \A i \in Made("tun_connected") :
                /\ \E j \in Made("pump_start") : j < i /\ last.calls[j].x = last.calls[i].x
                /\ tun_persist[last.c] # "none"
                /\ stores[StoreId(Pack, last.c)].obj = pumps[last.calls[i].x].fd

\* a fresh setup has connected
C16_Witness ==
    /\ IsStart
    /\ Names(TryCalls) = <<"use_persisted_tun">> \o MissSteps
    /\ Running(last.c)

\* apply_push_update() has just stopped the running pump of the controller
PushedWhileConnected ==
    /\ last.op = "apply_push_update"
    /\ last.c = 1
    /\ InSeq("pump_stop", Names(last.calls))

\* a tun_start() of the controller has connected it, or has failed with exactly
\* one tun_error
RestartSettled ==
    /\ IsStart
    /\ last.c = 1
    /\ \/ Made("tun_connected") # {} /\ Made("pump_start") # {} /\ Running(1)
       \/ last.threw /\ Cardinality(Made("tun_error")) = 1 /\ Made("tun_connected") = {}

\* C17: on an event loop that runs what is posted to it, an apply_push_update()
\* on a connected controller leads to a tun_start() that connects or reports
\* one tun_error; the call leaves the controller without pump, and it gets a
\* pump again only by a tun_start().
C17_PushRoundTrip ==
    /\ [](last.op = "apply_push_update" => (impl[last.c] = 0 /\ Posted(Pack) > 0))
    /\ [][(impl[1] = 0 /\ impl'[1] # 0) => last'.op \in {"tun_start", "posted_start"}]_vars
    /\ (PushedWhileConnected ~> RestartSettled)

\* the restart that apply_push_update() posted for a connected controller has run
\* and connected
C17_Witness ==
    /\ last.op = "posted_start"
    /\ last.calls[1].x # 0
    /\ RestartSettled
    /\ Running(1)
    /\ queue = <<>>

\* C18: when the pump calls tun_error_handler, for whatever error, the
\* controller makes no upcall, does not stop the pump, does not touch the store
\* and stays as it is; the pump arms its next read.
C18_PumpErrorsIgnored ==
    /\ \A c \in Clients :
          /\ Prog(tun_error_handler(Pack, c)) = Prog(Pack)
          /\ tun_error_handler(Pack, c).calls = <<>>
    /\ \A p \in 1 .. MaxPumps, kind \in {"zero", "err"} :
          (pumps[p].owner # 0 /\ ~pumps[p].halt)
              => LET r == handle_read(Pack, p, kind, FALSE)
                 IN /\ Names(r.calls) = <<"tun_error_handler">>
                    /\ r.impl = impl
                    /\ r.halt = halt
                    /\ r.tun_persist = tun_persist
                    /\ r.state = state
                    /\ r.heap = heap
                    /\ r.stores = stores
                    /\ r.fds = fds
                    /\ ~r.pumps[p].halt
                    /\ r.pumps[p].armed = pumps[p].armed + 1
    /\ (last.op = "handle_read" /\ Made("tun_error_handler") # {})
          => /\ Made("tun_error") = {}
             /\ Made("pump_stop") = {}
             /\ Made("store_close") = {}
             /\ Running(last.c)

\* the pump has reported a read error on a descriptor that was closed under it
C18_Witness ==
    /\ last.op = "handle_read"
    /\ Running(last.c)
    /\ last.calls = <<Ev("tun_error_handler", impl[last.c])>>
    /\ fds[pumps[impl[last.c]].fd].status # "open"

\* C19: when the event loop runs a posted restart right after a stop() of the
\* controller, with no call of the parent in between, the restart leaves the
\* controller without running pump: it makes no establish and no tun_connected.
C19_StopIsFinal ==
    [][(last.op = "stop" /\ last'.op = "posted_start" /\ last'.c = last.c)
          => /\ ~Running(last.c)'
             /\ \A i \in 1 .. Len(last'.calls) :
                   last'.calls[i].e \notin {"establish", "tun_connected"}]_vars

====
